---- MODULE Spec2Model ----
(***************************************************************************)
(* Session and workflow orchestration engine of backend/vahan_automation.py *)
(* (session store, session manager, login gate, status reporter, step      *)
(* sequencer with home-page recovery, loop controller).                    *)
(*                                                                         *)
(* The remote browser, the human operator and the clock are the            *)
(* environment.  The file system is assumed to work: save_session_info and *)
(* clear_session_info swallow I/O errors, which are not modelled.          *)
(***************************************************************************)
EXTENDS Integers, Sequences, FiniteSets, TLC

(***************************************************************************)
(* Bounds of the model                                                     *)
(***************************************************************************)
MaxItems == 1       \* passes of one run that the site lets succeed
MaxBounce == 3      \* bounces to the error page during one pass
MaxPolls == 2       \* polls of the login wait before its timeout is forced
MaxTicks == 2       \* clock advances (session-store specification)
MaxBoxes == 2       \* approvedStatus checkboxes in the document list
MaxPasses == 2      \* passes over the workbench (state-checked steps specification)
MaxPending == 3     \* requests accepted by the server and not yet handled

(***************************************************************************)
(* Program constants                                                       *)
(***************************************************************************)
FreshWindow == 3600
max_retries == 2
max_consecutive_errors == 3
nav_max_retries == 3

None == 0
Absent == [present |-> FALSE]
NoTs == -1
StartTime == 7200

\* Endpoint slots.  An endpoint that neither the handle nor the control port
\* reaches can never be observed by the engine again; it is dropped from the
\* state (Forget), so two slots hold every endpoint the engine can meet: the
\* one on the control port and the one the handle drives.
EpIds == {1, 2}

Urls == {"login", "dashboard", "offsite", "offsite_login"}

\* "vahan.parivahan.gov.in" in url
OnSite(u) == u \in {"login", "dashboard"}
\* "login" in url.lower()
HasLogin(u) == u \in {"login", "offsite_login"}

VAHAN_URL == "login"

VARIABLES
    driver_instance,   \* global handle: None or the id of the endpoint it drives
    is_logged_in,      \* global auth flag
    sessionFile,       \* content of .vahan_session.json, or Absent
    now,               \* time.time(), whole seconds
    ep,                \* environment: endpoint slot -> [st, url]
    port,              \* environment: endpoint listening on CHROME_DEBUG_PORT, or None
    affordance,        \* environment: the page shows the 'Back to Home-Page' button
    pc,                \* position of the engine operation in progress
    result,            \* what the last engine operation handed to its caller
    loaded,            \* last value returned by load_session_info
    written,           \* history: what the last save_session_info put in the file
    sl,                \* locals of start_vahan_browser / wait_for_login
    wf,                \* locals of run_automation / run_automation_internal
    gh,                \* history variables (observations only, never read by the engine)
    page,              \* environment: widgets of the workbench that the state-checked steps read
    srv,               \* server process: requests accepted and handlers started on the event loop
    act                \* activation: activation_data.json, the Firebase documents, last response

vars == <<driver_instance, is_logged_in, sessionFile, now, ep, port, affordance,
          pc, result, loaded, written, sl, wf, gh, page, srv, act>>

globals == <<driver_instance, is_logged_in, sessionFile>>
env == <<ep, port, affordance>>
store == <<loaded, written>>

(***************************************************************************)
(* Environment: endpoints                                                  *)
(***************************************************************************)
NoEp == [st |-> "none", url |-> "offsite"]

Alive(id) == id # None /\ ep[id].st # "none"
\* a read such as driver.current_url answers
ReadOk(id) == id # None /\ ep[id].st = "ok"

FreeSlots == {i \in EpIds : ep[i].st = "none" /\ i # driver_instance}

\* endpoints out of the engine's reach leave the state
Forget(e, h, p) == [i \in EpIds |-> IF i \in {h, p} THEN e[i] ELSE NoEp]

\* driver.quit(): "ok" ends the endpoint, "raise" leaves it as it was
QuitEp(e, p, id, outcome) ==
    IF outcome = "ok" /\ id # None
    THEN [ep |-> [e EXCEPT ![id] = NoEp], port |-> IF p = id THEN None ELSE p]
    ELSE [ep |-> e, port |-> p]

(***************************************************************************)
(* Session Store                                                           *)
(***************************************************************************)
SessionRecord(hd, li, ts) ==
    [present |-> TRUE, has_driver |-> hd, is_logged_in |-> li, timestamp |-> ts]

\* save_session_info(): snapshot of the two globals and the clock
save_session_info(drv, li, t) == SessionRecord(drv # None, li, t)

\* session_data.get('timestamp', 0)
TimestampOf(rec) == IF rec.timestamp = NoTs THEN 0 ELSE rec.timestamp

load_session_info_stale(file, t) ==
    IF file.present /\ t - TimestampOf(file) <= FreshWindow THEN file ELSE Absent

load_session_info_nocheck(file, t) ==
    IF file.present THEN file ELSE Absent

\* load_session_info(): the record if it exists and is younger than the window
load_session_info(file, t) ==
    IF file.present /\ t - TimestampOf(file) < FreshWindow THEN file ELSE Absent

clear_session_info_noop == sessionFile

\* clear_session_info()
clear_session_info == Absent

(***************************************************************************)
(* Results handed to the caller                                            *)
(***************************************************************************)
Res(op, success, status, count, reused, open, logged) ==
    [op |-> op, kind |-> "returned", success |-> success, status |-> status,
     processed_count |-> count, reused_session |-> reused,
     browser_open |-> open, logged_in |-> logged, message |-> << >>]

\* the texts of a result's message that the model tells apart
RemediationText == "Chrome Driver Initialization Failed: update Chrome, restart, update packages"
StartErrorPrefix == "Error starting Vahan browser: "

NoResult == Res("none", FALSE, "", 0, FALSE, FALSE, FALSE)
Raised(op) == [Res(op, FALSE, "", 0, FALSE, FALSE, FALSE) EXCEPT !.kind = "raised"]

NoWritten == [valid |-> FALSE, has_driver |-> FALSE, is_logged_in |-> FALSE, at |-> 0]

NoSl == [fresh |-> FALSE, retry_count |-> 0, login_url |-> "offsite", polls |-> 0]
NoWf == [processed_count |-> 0, error_count |-> 0, retry_count |-> 0, step |-> 0,
         ctx |-> "top"]
\* the workbench before any pass has looked at it
NoPage == [dealer |-> FALSE, newReg |-> FALSE, verify |-> FALSE, radio |-> FALSE,
           boxes |-> <<>>, pos |-> 0, clicks |-> 0, prev |-> 0, passes |-> 0,
           desired |-> FALSE]

NoFile == [kind |-> "none"]
NoDoc == [kind |-> "none"]
NoResp == [op |-> "none", deviceActivation |-> FALSE, activationStatus |-> ""]
NoAct == [file |-> NoFile, docs |-> [k \in {"K1", "K2"} |-> NoDoc], resp |-> NoResp]

NoSrv == [pending |-> << >>, running |-> << >>]

NoGh == [successes |-> 0, streak |-> 0, k |-> 0, restarts |-> 0, sawTimeout |-> FALSE,
         sawUnreachable |-> FALSE, adopted |-> FALSE, tried |-> <<>>, created |-> FALSE,
         last |-> "", gateEmpty |-> FALSE, afterTimeout |-> FALSE,
         ackUrl |-> "", entered |-> FALSE, clicked |-> {}]

(***************************************************************************)
(* Session Manager                                                         *)
(***************************************************************************)
\* is_chrome_debugging_available(): TCP connect to 127.0.0.1:9222
is_chrome_debugging_available == port # None

try_connect_to_existing_chrome_never(attachOk) == None

\* try_connect_to_existing_chrome(): attachOk says whether uc.Chrome(debuggerAddress)
\* returned; the handle is kept only if the liveness read answers
try_connect_to_existing_chrome(attachOk) ==
    IF is_chrome_debugging_available /\ attachOk /\ ReadOk(port) THEN port ELSE None

StrategyOrder == <<"auto", "v140", "managed", "v139", "v138", "v137", "v136">>
Strategies == {StrategyOrder[i] : i \in 1..Len(StrategyOrder)}

RECURSIVE TryStrategies_nostop(_, _)
TryStrategies_nostop(i, works) ==
    IF i > Len(StrategyOrder) THEN [got |-> FALSE, tried |-> <<>>]
    ELSE LET r == TryStrategies_nostop(i + 1, works)
         IN [got |-> r.got \/ StrategyOrder[i] \in works,
             tried |-> <<StrategyOrder[i]>> \o r.tried]

RECURSIVE TryStrategies(_, _)
\* Strategies 1-4 of create_vahan_driver from position i on: each one is invoked
\* only when the ones before raised; works is the set that would return a driver
TryStrategies(i, works) ==
    IF i > Len(StrategyOrder) THEN [got |-> FALSE, tried |-> <<>>]
    ELSE IF StrategyOrder[i] \in works
         THEN [got |-> TRUE, tried |-> <<StrategyOrder[i]>>]
         ELSE LET r == TryStrategies(i + 1, works)
              IN [got |-> r.got, tried |-> <<StrategyOrder[i]>> \o r.tried]

create_vahan_driver_mute(attachOk, works, health) ==
    LET existing == try_connect_to_existing_chrome(attachOk)
        r == TryStrategies(1, works)
        slot == CHOOSE i \in FreeSlots : \A j \in FreeSlots : i <= j
    IN IF existing # None
       THEN [driver |-> existing, tried |-> <<"attach">>, ep |-> ep, port |-> port,
             created |-> FALSE, error |-> ""]
       ELSE IF r.got
       THEN [driver |-> slot, tried |-> <<"attach">> \o r.tried,
             ep |-> [ep EXCEPT ![slot] = [st |-> health, url |-> "offsite"]],
             port |-> IF port = None THEN slot ELSE port,
             created |-> TRUE, error |-> ""]
       ELSE [driver |-> None, tried |-> <<"attach">> \o r.tried, ep |-> ep, port |-> port,
             created |-> FALSE, error |-> ""]

\* create_vahan_driver(): attach first, then the strategies; a created endpoint
\* takes a free slot and the control port if nobody holds it.
\* driver = None stands for the final raise Exception(error_msg), error for its text
create_vahan_driver(attachOk, works, health) ==
    LET existing == try_connect_to_existing_chrome(attachOk)
        r == TryStrategies(1, works)
        slot == CHOOSE i \in FreeSlots : \A j \in FreeSlots : i <= j
    IN IF existing # None
       THEN [driver |-> existing, tried |-> <<"attach">>, ep |-> ep, port |-> port,
             created |-> FALSE, error |-> ""]
       ELSE IF r.got
       THEN [driver |-> slot, tried |-> <<"attach">> \o r.tried,
             ep |-> [ep EXCEPT ![slot] = [st |-> health, url |-> "offsite"]],
             port |-> IF port = None THEN slot ELSE port,
             created |-> TRUE, error |-> ""]
       ELSE [driver |-> None, tried |-> <<"attach">> \o r.tried, ep |-> ep, port |-> port,
             created |-> FALSE, error |-> RemediationText]

(***************************************************************************)
(* Status Reporter                                                         *)
(***************************************************************************)
LoggedInUrl_nosite(u) == ~HasLogin(u)

\* "vahan.parivahan.gov.in" in current_url and "login" not in current_url.lower()
LoggedInUrl(u) == OnSite(u) /\ ~HasLogin(u)

Closed(drv, li, file, unreachable) ==
    [driver_instance |-> drv, is_logged_in |-> li, sessionFile |-> file,
     browser_open |-> FALSE, logged_in |-> FALSE, adopted |-> FALSE,
     unreachable |-> unreachable, ep |-> ep, port |-> port]

check_handle_keep(d, adopted) ==
    IF ReadOk(d)
    THEN LET li == LoggedInUrl(ep[d].url)
         IN [driver_instance |-> d, is_logged_in |-> li,
             sessionFile |-> save_session_info(d, li, now),
             browser_open |-> TRUE, logged_in |-> li,
             adopted |-> adopted, unreachable |-> FALSE,
             ep |-> ep, port |-> port]
    ELSE Closed(None, FALSE, sessionFile, TRUE)

check_handle_flagstays(d, adopted) ==
    IF ReadOk(d)
    THEN LET li == LoggedInUrl(ep[d].url)
         IN [driver_instance |-> d, is_logged_in |-> li,
             sessionFile |-> save_session_info(d, li, now),
             browser_open |-> TRUE, logged_in |-> li,
             adopted |-> adopted, unreachable |-> FALSE,
             ep |-> ep, port |-> port]
    ELSE Closed(None, is_logged_in, clear_session_info, TRUE)

\* lines 272-310: the liveness read on handle d and the classification
check_handle(d, adopted) ==
    IF ReadOk(d)
    THEN LET li == LoggedInUrl(ep[d].url)
         IN [driver_instance |-> d, is_logged_in |-> li,
             sessionFile |-> save_session_info(d, li, now),
             browser_open |-> TRUE, logged_in |-> li,
             adopted |-> adopted, unreachable |-> FALSE,
             ep |-> ep, port |-> port]
    ELSE Closed(None, FALSE, clear_session_info, TRUE)

check_browser_status_create(attachOk) ==
    LET existing == try_connect_to_existing_chrome(attachOk)
        c == create_vahan_driver(attachOk, {"auto"}, "ok")
    IN IF driver_instance = None /\ ~is_chrome_debugging_available
       THEN [driver_instance |-> c.driver, is_logged_in |-> FALSE,
             sessionFile |-> save_session_info(c.driver, FALSE, now),
             browser_open |-> TRUE, logged_in |-> FALSE,
             adopted |-> FALSE, unreachable |-> FALSE,
             ep |-> c.ep, port |-> c.port]
       ELSE IF driver_instance = None /\ existing = None
       THEN Closed(None, is_logged_in, sessionFile, FALSE)
       ELSE IF driver_instance = None
       THEN check_handle(existing, TRUE)
       ELSE check_handle(driver_instance, FALSE)

check_browser_status_trustfile(attachOk) ==
    LET existing == try_connect_to_existing_chrome(attachOk)
        rec == load_session_info(sessionFile, now)
    IN IF driver_instance = None /\ existing = None
       THEN [Closed(None, is_logged_in, sessionFile, FALSE) EXCEPT
                !.browser_open = rec.present /\ rec.has_driver,
                !.logged_in = rec.present /\ rec.has_driver /\ rec.is_logged_in]
       ELSE IF driver_instance = None
       THEN check_handle(existing, TRUE)
       ELSE check_handle(driver_instance, FALSE)

\* check_browser_status(): new globals, environment and the returned dict
check_browser_status(attachOk) ==
    LET existing == try_connect_to_existing_chrome(attachOk)
    IN IF driver_instance = None /\ ~is_chrome_debugging_available
       THEN Closed(None, is_logged_in, sessionFile, FALSE)
       ELSE IF driver_instance = None /\ existing = None
       THEN Closed(None, is_logged_in, sessionFile, FALSE)
       ELSE IF driver_instance = None
       THEN check_handle(existing, TRUE)
       ELSE check_handle(driver_instance, FALSE)

close_vahan_browser_keep(quit) ==
    LET q == QuitEp(ep, port, driver_instance, quit)
    IN IF driver_instance # None /\ quit = "ok"
       THEN [driver_instance |-> None, is_logged_in |-> FALSE,
             sessionFile |-> clear_session_info, ep |-> q.ep, port |-> q.port,
             ret |-> TRUE]
       ELSE [driver_instance |-> driver_instance, is_logged_in |-> is_logged_in,
             sessionFile |-> clear_session_info, ep |-> ep, port |-> port,
             ret |-> driver_instance = None]

\* close_vahan_browser(): new globals, environment and the returned bool
close_vahan_browser(quit) ==
    LET q == QuitEp(ep, port, driver_instance, quit)
    IN IF driver_instance # None
       THEN [driver_instance |-> None, is_logged_in |-> FALSE,
             sessionFile |-> clear_session_info, ep |-> q.ep, port |-> q.port,
             ret |-> quit = "ok"]
       ELSE [driver_instance |-> None, is_logged_in |-> is_logged_in,
             sessionFile |-> clear_session_info, ep |-> ep, port |-> port,
             ret |-> TRUE]

(***************************************************************************)
(* Initial state: a process that has just been started                     *)
(***************************************************************************)
InitFiles == {Absent, SessionRecord(TRUE, TRUE, StartTime - 1)}

Init ==
    /\ driver_instance = None
    /\ is_logged_in = FALSE
    /\ sessionFile \in InitFiles
    /\ now = StartTime
    /\ ep = [i \in EpIds |-> NoEp]
    /\ port = None
    /\ affordance = FALSE
    /\ pc = "idle"
    /\ result = NoResult
    /\ loaded = Absent
    /\ written = NoWritten
    /\ sl = NoSl
    /\ wf = NoWf
    /\ gh = NoGh
    /\ page = NoPage
    /\ srv = NoSrv
    /\ act = NoAct

(***************************************************************************)
(* Environment actions                                                     *)
(***************************************************************************)
\* the browser is closed from outside, or crashes
EndpointDies(id) ==
    /\ Alive(id)
    /\ ep' = [ep EXCEPT ![id] = NoEp]
    /\ port' = IF port = id THEN None ELSE port
    /\ UNCHANGED <<globals, now, page, srv, act, affordance, pc, result, store, sl, wf, gh>>

\* the browser stops answering but keeps its port
EndpointHangs(id) ==
    /\ pc = "idle"
    /\ ep[id].st = "ok"
    /\ ep' = [ep EXCEPT ![id] = [st |-> "hung", url |-> "offsite"]]
    /\ UNCHANGED <<globals, now, page, srv, act, port, affordance, pc, result, store, sl, wf, gh>>

\* the human operator logs in, logs out or browses elsewhere
UserNavigates(id, u) ==
    /\ pc \in {"idle", "wait_poll"}
    /\ ep[id].st = "ok"
    /\ ep[id].url # u
    /\ ep' = [ep EXCEPT ![id].url = u]
    /\ UNCHANGED <<globals, now, page, srv, act, port, affordance, pc, result, store, sl, wf, gh>>

\* the backend process is restarted: module globals start again, browser and file stay
ProcessRestart ==
    /\ pc = "idle"
    /\ driver_instance' = None
    /\ is_logged_in' = FALSE
    /\ ep' = Forget(ep, None, port)
    /\ result' = NoResult
    /\ gh' = NoGh
    /\ UNCHANGED <<sessionFile, now, page, srv, act, port, affordance, pc, store, sl, wf>>

(***************************************************************************)
(* Engine operations: checkStatus, closeSession                            *)
(***************************************************************************)
CheckStatus(attachOk) ==
    /\ pc = "idle"
    /\ LET r == check_browser_status(attachOk)
       IN /\ driver_instance' = r.driver_instance
          /\ is_logged_in' = r.is_logged_in
          /\ sessionFile' = r.sessionFile
          /\ ep' = Forget(r.ep, r.driver_instance, r.port)
          /\ port' = r.port
          /\ result' = Res("check", TRUE, "", 0, FALSE, r.browser_open, r.logged_in)
          /\ gh' = [NoGh EXCEPT !.adopted = r.adopted, !.sawUnreachable = r.unreachable]
    /\ UNCHANGED <<now, page, srv, act, affordance, pc, store, sl, wf>>

CloseSession(quit) ==
    /\ pc = "idle"
    /\ LET r == close_vahan_browser(quit)
       IN /\ driver_instance' = r.driver_instance
          /\ is_logged_in' = r.is_logged_in
          /\ sessionFile' = r.sessionFile
          /\ ep' = Forget(r.ep, r.driver_instance, r.port)
          /\ port' = r.port
          /\ result' = Res("close", r.ret, "", 0, FALSE, FALSE, FALSE)
          /\ gh' = NoGh
    /\ UNCHANGED <<now, page, srv, act, affordance, pc, store, sl, wf>>

(***************************************************************************)
(* Engine operation: startSession (start_vahan_browser)                    *)
(***************************************************************************)
StartReturn_quit(login_success) ==
    /\ pc' = "idle"
    /\ sl' = NoSl
    /\ is_logged_in' = IF login_success THEN TRUE ELSE is_logged_in
    /\ sessionFile' = IF login_success /\ sl.fresh
                      THEN save_session_info(driver_instance, TRUE, now)
                      ELSE sessionFile
    /\ result' = IF login_success
                 THEN Res("start", TRUE, "login_success", 0, FALSE, FALSE, FALSE)
                 ELSE Res("start", FALSE, "login_timeout", 0, FALSE, FALSE, FALSE)
    /\ driver_instance' = IF login_success THEN driver_instance ELSE None
    /\ ep' = IF login_success THEN ep
             ELSE Forget(QuitEp(ep, port, driver_instance, "ok").ep, None,
                         QuitEp(ep, port, driver_instance, "ok").port)
    /\ port' = IF login_success THEN port ELSE QuitEp(ep, port, driver_instance, "ok").port
    /\ UNCHANGED <<now, page, srv, act, affordance, store, wf>>

\* the return of start_vahan_browser once wait_for_login has answered
StartReturn(login_success) ==
    /\ pc' = "idle"
    /\ sl' = NoSl
    /\ is_logged_in' = IF login_success THEN TRUE ELSE is_logged_in
    /\ sessionFile' = IF login_success /\ sl.fresh
                      THEN save_session_info(driver_instance, TRUE, now)
                      ELSE sessionFile
    /\ result' = IF login_success
                 THEN Res("start", TRUE, "login_success", 0, FALSE, FALSE, FALSE)
                 ELSE Res("start", FALSE, "login_timeout", 0, FALSE, FALSE, FALSE)
    /\ UNCHANGED <<driver_instance, now, page, srv, act, env, store, wf>>

\* lines 375-413: status check, then reuse, wait for login, or start fresh
StartSession(attachOk) ==
    /\ pc = "idle"
    /\ LET r == check_browser_status(attachOk)
       IN /\ driver_instance' = r.driver_instance
          /\ is_logged_in' = r.is_logged_in
          /\ sessionFile' = r.sessionFile
          /\ ep' = Forget(r.ep, r.driver_instance, r.port)
          /\ port' = r.port
          /\ gh' = [NoGh EXCEPT !.adopted = r.adopted, !.sawUnreachable = r.unreachable,
                                 !.afterTimeout = (result.op = "start"
                                                   /\ result.status = "login_timeout")]
          /\ IF r.browser_open /\ r.logged_in
             THEN /\ pc' = "idle"
                  /\ sl' = NoSl
                  /\ result' = Res("start", TRUE, "already_logged_in", 0, TRUE, FALSE, FALSE)
             ELSE IF r.browser_open
             THEN /\ pc' = "wait_init"
                  /\ sl' = [NoSl EXCEPT !.fresh = FALSE]
                  /\ result' = NoResult
             ELSE /\ pc' = "create"
                  /\ sl' = [NoSl EXCEPT !.fresh = TRUE]
                  /\ result' = NoResult
    /\ UNCHANGED <<now, page, srv, act, affordance, store, wf>>

\* lines 419-423 and the handler at 529-546 when create_vahan_driver raises
StartCreate(attachOk, works, health) ==
    /\ pc = "create"
    /\ LET c == create_vahan_driver(attachOk, works, health)
       IN /\ driver_instance' = c.driver
          /\ ep' = c.ep
          /\ port' = c.port
          /\ gh' = [gh EXCEPT !.tried = c.tried, !.created = c.created,
                               !.sawUnreachable = FALSE]
          /\ IF c.driver = None
             THEN /\ pc' = "idle"
                  /\ sl' = NoSl
                  /\ result' = [Res("start", FALSE, "error", 0, FALSE, FALSE, FALSE)
                                  EXCEPT !.message = <<StartErrorPrefix, c.error>>]
             ELSE /\ pc' = "nav"
                  /\ UNCHANGED <<sl, result>>
    /\ UNCHANGED <<is_logged_in, sessionFile, now, page, srv, act, affordance, store, wf>>

PageLoaded_any(current_url) == TRUE

\* line 454: "vahan.parivahan.gov.in" in current_url or "login" in current_url.lower()
PageLoaded(current_url) == OnSite(current_url) \/ HasLogin(current_url)

NavOutcomes == {"timeout", "neterr", "error"} \cup Urls

\* one pass of the navigation loop (lines 430-478) and, when the loop ends without
\* page_loaded or an exception leaves it, the cleanup and return (480-507, 529-546)
StartNavigate(outcome, quit) ==
    /\ pc = "nav"
    /\ outcome \in NavOutcomes
    /\ ~ReadOk(driver_instance) => outcome = "error"
    /\ LET drv == driver_instance
           landed == outcome \in Urls
           page_loaded == landed /\ PageLoaded(outcome)
           retry == sl.retry_count + 1
           e1 == IF landed THEN [ep EXCEPT ![drv].url = outcome] ELSE ep
           q == QuitEp(e1, port, drv, quit)
       IN IF page_loaded
          THEN /\ ep' = e1
               /\ pc' = "wait_init"
               /\ UNCHANGED <<driver_instance, sessionFile, port, sl, result, gh>>
          ELSE IF outcome = "error"
          THEN /\ ep' = Forget(q.ep, IF quit = "ok" THEN None ELSE drv, q.port)
               /\ port' = q.port
               /\ driver_instance' = IF quit = "ok" THEN None ELSE drv
               /\ sessionFile' = IF quit = "ok" THEN clear_session_info ELSE sessionFile
               /\ pc' = "idle"
               /\ sl' = NoSl
               /\ gh' = [gh EXCEPT !.sawUnreachable = ~ReadOk(drv)]
               /\ result' = Res("start", FALSE, "error", 0, FALSE, FALSE, FALSE)
          ELSE IF retry < nav_max_retries
          THEN /\ ep' = e1
               /\ sl' = [sl EXCEPT !.retry_count = retry]
               /\ UNCHANGED <<driver_instance, sessionFile, port, pc, result, gh>>
          ELSE /\ ep' = Forget(q.ep, IF quit = "ok" THEN None ELSE drv, q.port)
               /\ port' = q.port
               /\ driver_instance' = IF quit = "ok" THEN None ELSE drv
               /\ pc' = "idle"
               /\ sl' = NoSl
               /\ result' = Res("start", FALSE, "connection_error", 0, FALSE, FALSE, FALSE)
               /\ UNCHANGED <<sessionFile, gh>>
    /\ UNCHANGED <<is_logged_in, now, page, srv, act, affordance, store, wf>>

(***************************************************************************)
(* Login Gate (wait_for_login), run inside startSession                    *)
(***************************************************************************)
\* lines 322-326: the initial location read
WaitInit ==
    /\ pc = "wait_init"
    /\ IF ReadOk(driver_instance)
       THEN /\ pc' = "wait_poll"
            /\ sl' = [sl EXCEPT !.login_url = ep[driver_instance].url, !.polls = 0]
            /\ UNCHANGED <<globals, now, page, srv, act, env, result, store, wf, gh>>
       ELSE /\ gh' = [gh EXCEPT !.sawUnreachable = TRUE]
            /\ StartReturn(FALSE)

LoginAcknowledged_nopattern(current_url, login_url, markers) ==
    current_url # login_url \/ markers

\* current_url != login_url and "login" not in current_url.lower(), or a marker
LoginAcknowledged(current_url, login_url, markers) ==
    (current_url # login_url /\ ~HasLogin(current_url)) \/ markers

WaitPoll_retry(markers) ==
    /\ pc = "wait_poll"
    /\ sl.polls < MaxPolls
    /\ IF ReadOk(driver_instance)
          /\ LoginAcknowledged(ep[driver_instance].url, sl.login_url, markers)
       THEN /\ gh' = [gh EXCEPT !.ackUrl = ep[driver_instance].url]
            /\ StartReturn(TRUE)
       ELSE /\ sl' = [sl EXCEPT !.polls = sl.polls + 1]
            /\ UNCHANGED <<globals, now, page, srv, act, env, pc, result, store, wf, gh>>

\* one iteration of the polling loop, lines 329-358
WaitPoll(markers) ==
    /\ pc = "wait_poll"
    /\ sl.polls < MaxPolls
    /\ IF ~ReadOk(driver_instance)
       THEN /\ gh' = [gh EXCEPT !.sawUnreachable = TRUE]
            /\ StartReturn(FALSE)
       ELSE IF LoginAcknowledged(ep[driver_instance].url, sl.login_url, markers)
       THEN /\ gh' = [gh EXCEPT !.ackUrl = ep[driver_instance].url]
            /\ StartReturn(TRUE)
       ELSE /\ sl' = [sl EXCEPT !.polls = sl.polls + 1]
            /\ UNCHANGED <<globals, now, page, srv, act, env, pc, result, store, wf, gh>>

\* the loop condition fails: time.time() - start_time >= timeout
WaitTimeout ==
    /\ pc = "wait_poll"
    /\ sl.polls >= 1
    /\ gh' = gh
    /\ StartReturn(FALSE)

(***************************************************************************)
(* Step Sequencer (run_automation_internal, execute_remaining_steps)       *)
(***************************************************************************)
Steps == <<"dashboard", "alert", "ready", "dealerReg", "newReg", "viewDetail", "gate",
           "verifyChk", "docsTab", "modifyView", "closeModal", "closePopup",
           "modifyView2", "sweep", "closeModal2", "closePopup2", "saveOptions",
           "fileMovement", "modalWait", "radio", "save", "yes">>

\* what the page can answer to a step: the element is found and acted on, the
\* bounded wait expires, or the driver raises something else (connection lost,
\* click intercepted, stale element).  The gate distinguishes how the table
\* and its first row show up; the sweep distinguishes the wait for the iframe
\* ("timeout") from the wait, inside the iframe, for a first checkbox
\* ("noboxes"); its "error" is raised inside the iframe.
\* Gate outcomes: "empty" the table is found and has no approve button;
\* "blocked" the button is found but never becomes clickable; "late_empty",
\* "late_rows", "absent" the wait for the table container expired and the
\* re-check of the handler finds the table without a first row, finds it with a
\* first row, or does not find it.
StepOutcomes(name) ==
    IF name = "gate"
    THEN {"ok", "empty", "blocked", "late_empty", "late_rows", "absent", "error"}
    ELSE IF name = "sweep" THEN {"ok", "timeout", "noboxes", "error"}
    ELSE {"ok", "timeout", "error"}

Next_ == [kind |-> "next", status |-> ""]
Return(status) == [kind |-> "return", status |-> status]

\* status of the pass when the wait of a step expires
TimeoutEffect(name) ==
    CASE name = "dashboard" -> [kind |-> "recover1", status |-> "button_not_found"]
      [] name = "sweep" -> [kind |-> "recover2", status |-> "checkboxes_not_found"]
      [] name \in {"alert", "modalWait"} -> Next_
      [] name \in {"ready", "dealerReg", "newReg", "viewDetail", "radio"} ->
            Return("element_not_found")
      [] name = "verifyChk" -> Return("checkbox_not_found")
      [] name = "docsTab" -> Return("tab_not_found")
      [] name = "modifyView" -> Return("modify_button_not_found")
      [] name = "closeModal" -> Return("modal_close_not_found")
      [] name \in {"closePopup", "closePopup2"} -> Return("popup_close_not_found")
      [] name = "modifyView2" -> Return("modify_button_2_not_found")
      [] name = "closeModal2" -> Return("modal_close_2_not_found")
      [] name = "saveOptions" -> Return("save_options_not_found")
      [] name = "fileMovement" -> Return("file_movement_not_found")
      [] name \in {"save", "yes"} -> Return("error")

ErrorEffect_swallow(name) ==
    CASE name = "dashboard" -> [kind |-> "raise", status |-> ""]
      [] OTHER -> Next_

\* status of the pass when a step raises anything but TimeoutException
ErrorEffect(name) ==
    CASE name = "dashboard" -> [kind |-> "raise", status |-> ""]
      [] name = "alert" -> Next_
      [] name \in {"closePopup", "closePopup2"} -> Return("popup_close_not_found")
      [] name = "modifyView2" -> Return("modify_button_2_click_error")
      [] name = "sweep" -> Return("checkbox_processing_error")
      [] OTHER -> Return("error")

GateEffect_conflate(outcome) ==
    CASE outcome = "ok" -> Next_
      [] outcome \in {"late_empty", "absent"} -> Return("no_approve_button")
      [] outcome \in {"empty", "blocked", "late_rows"} -> Return("table_not_found")
      [] outcome = "error" -> Return("error")

\* Step 5, lines 852-916: the work-item gate
GateEffect(outcome) ==
    CASE outcome = "ok" -> Next_
      [] outcome \in {"empty", "late_empty"} -> Return("no_approve_button")
      [] outcome \in {"blocked", "late_rows", "absent"} -> Return("table_not_found")
      [] outcome = "error" -> Return("error")

StepEffect_lenient(name, outcome) ==
    IF name = "gate" THEN GateEffect(outcome)
    ELSE CASE outcome = "ok" -> Next_
           [] outcome \in {"timeout", "noboxes"} ->
                 IF name \in {"save", "yes"} THEN Next_ ELSE TimeoutEffect(name)
           [] outcome = "error" -> ErrorEffect(name)

\* what a step does to the pass: lines 685-1780
StepEffect(name, outcome) ==
    IF name = "gate" THEN GateEffect(outcome)
    ELSE CASE outcome = "ok" -> Next_
           [] outcome \in {"timeout", "noboxes"} -> TimeoutEffect(name)
           [] outcome = "error" -> ErrorEffect(name)

\* check_for_back_to_home_page(): TRUE when the button was found and clicked
check_for_back_to_home_page(clickOk) ==
    ReadOk(driver_instance) /\ affordance /\ clickOk

Recovery_nobudget(kind, clickOk) ==
    LET found == check_for_back_to_home_page(clickOk)
    IN [clicked |-> found, restart |-> found]

\* the two recovery sites: lines 668-672 (budget, then look) and 1308-1311
\* (look and click, then budget)
Recovery(kind, clickOk) ==
    LET found == check_for_back_to_home_page(clickOk)
        budget == wf.retry_count < max_retries
    IN IF kind = "recover1"
       THEN [clicked |-> budget /\ found, restart |-> budget /\ found]
       ELSE [clicked |-> found, restart |-> found /\ budget]

\* lines 1183-1198: the sweep switches into the iframe once it is found
FrameEntered(outcome) == outcome \in {"ok", "noboxes", "error"}

SwitchBackIssued_normalonly(outcome) == outcome = "ok"

\* lines 1282, 1289-1292, 1322-1325: switch_to.default_content() at the end of
\* the loop, in the timeout handler and in the handler of everything else
SwitchBackIssued(outcome) == outcome \in {"ok", "timeout", "noboxes", "error"}

\* browsing context the driver is left in by the sweep
SweepContext(ctx, outcome) ==
    IF SwitchBackIssued(outcome) THEN "top"
    ELSE IF FrameEntered(outcome) THEN "frame"
    ELSE ctx

(***************************************************************************)
(* Loop Controller (run_automation)                                        *)
(***************************************************************************)
PassResult(success, status) == [success |-> success, status |-> status]

LoopController_noreset(res, processed, errors) ==
    IF res.success
    THEN [done |-> FALSE, processed_count |-> processed + 1, error_count |-> errors,
          result |-> NoResult]
    ELSE IF res.status = "no_approve_button"
    THEN [done |-> TRUE, processed_count |-> processed, error_count |-> errors,
          result |-> Res("run", TRUE, "completed", processed, FALSE, FALSE, FALSE)]
    ELSE IF errors + 1 >= max_consecutive_errors
    THEN [done |-> TRUE, processed_count |-> processed, error_count |-> errors + 1,
          result |-> Res("run", FALSE, res.status, processed, FALSE, FALSE, FALSE)]
    ELSE [done |-> FALSE, processed_count |-> processed, error_count |-> errors + 1,
          result |-> NoResult]

LoopController_countall(res, processed, errors) ==
    IF res.success
    THEN [done |-> FALSE, processed_count |-> processed + 1, error_count |-> 0,
          result |-> NoResult]
    ELSE IF res.status = "no_approve_button"
    THEN [done |-> TRUE, processed_count |-> processed + 1, error_count |-> errors,
          result |-> Res("run", TRUE, "completed", processed + 1, FALSE, FALSE, FALSE)]
    ELSE IF errors + 1 >= max_consecutive_errors
    THEN [done |-> TRUE, processed_count |-> processed, error_count |-> errors + 1,
          result |-> Res("run", FALSE, res.status, processed, FALSE, FALSE, FALSE)]
    ELSE [done |-> FALSE, processed_count |-> processed, error_count |-> errors + 1,
          result |-> NoResult]

LoopController_nolimit(res, processed, errors) ==
    IF res.success
    THEN [done |-> FALSE, processed_count |-> processed + 1, error_count |-> 0,
          result |-> NoResult]
    ELSE IF res.status = "no_approve_button"
    THEN [done |-> TRUE, processed_count |-> processed, error_count |-> errors,
          result |-> Res("run", TRUE, "completed", processed, FALSE, FALSE, FALSE)]
    ELSE [done |-> FALSE, processed_count |-> processed, error_count |-> 0,
          result |-> NoResult]

\* lines 1821-1866: what the loop does with the result of one pass
LoopController(res, processed, errors) ==
    IF res.success
    THEN [done |-> FALSE, processed_count |-> processed + 1, error_count |-> 0,
          result |-> NoResult]
    ELSE IF res.status = "no_approve_button"
    THEN [done |-> TRUE, processed_count |-> processed, error_count |-> errors,
          result |-> Res("run", TRUE, "completed", processed, FALSE, FALSE, FALSE)]
    ELSE IF errors + 1 >= max_consecutive_errors
    THEN [done |-> TRUE, processed_count |-> processed, error_count |-> errors + 1,
          result |-> Res("run", FALSE, res.status, processed, FALSE, FALSE, FALSE)]
    ELSE [done |-> FALSE, processed_count |-> processed, error_count |-> errors + 1,
          result |-> NoResult]

(***************************************************************************)
(* Engine operation: runWorkflow                                           *)
(***************************************************************************)
\* history of a pass that starts now
NewPass(g) == [g EXCEPT !.k = IF affordance' THEN 1 ELSE 0, !.restarts = 0,
                        !.sawTimeout = FALSE, !.gateEmpty = FALSE, !.entered = FALSE,
                        !.clicked = {}]

\* lines 1788-1819: precondition check, then the first pass
Precondition_openonly(r) ==
    IF ~r.browser_open THEN "browser_not_open" ELSE "ok"

\* lines 1789-1801: the two precondition checks on the status dict
Precondition(r) ==
    IF ~r.browser_open THEN "browser_not_open"
    ELSE IF ~r.logged_in THEN "not_logged_in"
    ELSE "ok"

RunWorkflow(attachOk) ==
    /\ pc = "idle"
    /\ LET r == check_browser_status(attachOk)
           g == [NoGh EXCEPT !.adopted = r.adopted, !.sawUnreachable = r.unreachable]
       IN /\ driver_instance' = r.driver_instance
          /\ is_logged_in' = r.is_logged_in
          /\ sessionFile' = r.sessionFile
          /\ ep' = Forget(r.ep, r.driver_instance, r.port)
          /\ port' = r.port
          /\ affordance' = affordance
          /\ IF Precondition(r) # "ok"
             THEN /\ result' = Res("run", FALSE, Precondition(r), 0, FALSE, FALSE, FALSE)
                  /\ gh' = g
                  /\ UNCHANGED <<pc, wf>>
             ELSE /\ result' = NoResult
                  /\ pc' = "pre"
                  /\ wf' = [NoWf EXCEPT !.ctx = wf.ctx]
                  /\ gh' = NewPass(g)
    /\ UNCHANGED <<now, page, srv, act, store, sl>>

\* the page bounces to the error page that carries the recovery affordance
Bounce ==
    /\ pc \in {"pre", "step"}
    /\ ReadOk(driver_instance)
    /\ ~affordance
    /\ gh.k < MaxBounce
    /\ affordance' = TRUE
    /\ gh' = [gh EXCEPT !.k = gh.k + 1]
    /\ UNCHANGED <<globals, now, page, srv, act, ep, port, pc, result, store, sl, wf>>

\* lines 643-647: the check before step 1 of every entry of the sequence
PreCheck(clickOk) ==
    /\ pc = "pre"
    /\ affordance' = IF check_for_back_to_home_page(clickOk) THEN FALSE ELSE affordance
    /\ pc' = "step"
    /\ wf' = [wf EXCEPT !.step = 1]
    /\ UNCHANGED <<globals, now, page, srv, act, ep, port, result, store, sl, gh>>

\* the pass returned res to the loop of run_automation
PassReturns(res, g, ctx) ==
    LET c == LoopController(res, wf.processed_count, wf.error_count)
        failure == ~res.success /\ res.status # "no_approve_button"
        h == [g EXCEPT !.successes = IF res.success THEN g.successes + 1 ELSE g.successes,
                       !.streak = IF failure
                                  THEN (IF g.streak < max_consecutive_errors
                                        THEN g.streak + 1 ELSE g.streak)
                                  ELSE IF res.success THEN 0 ELSE g.streak]
    IN IF c.done
       THEN /\ pc' = "idle"
            /\ wf' = [NoWf EXCEPT !.ctx = ctx]
            /\ result' = c.result
            /\ gh' = [h EXCEPT !.last = res.status, !.k = 0, !.restarts = 0,
                               !.sawTimeout = FALSE, !.entered = FALSE, !.clicked = {}]
       ELSE /\ pc' = "pre"
            /\ wf' = [NoWf EXCEPT !.processed_count = c.processed_count,
                                  !.error_count = c.error_count, !.ctx = ctx]
            /\ result' = result
            /\ gh' = NewPass(h)

\* one step of the pass, with the handlers that surround it
Step(outcome, clickOk) ==
    /\ pc = "step"
    /\ LET name == Steps[wf.step]
           e == StepEffect(name, outcome)
           rec == Recovery(e.kind, clickOk)
           ctx == IF name = "sweep" THEN SweepContext(wf.ctx, outcome) ELSE wf.ctx
           g == [gh EXCEPT !.sawTimeout = gh.sawTimeout \/ (outcome \in {"timeout", "noboxes"}
                                                             /\ name # "gate"),
                           !.entered = gh.entered \/ (name = "sweep" /\ FrameEntered(outcome)),
                           !.clicked = IF name \in {"gate", "save", "yes"} /\ outcome = "ok"
                                       THEN gh.clicked \cup {name} ELSE gh.clicked,
                           !.sawUnreachable = gh.sawUnreachable \/ ~ReadOk(driver_instance),
                           !.gateEmpty = gh.gateEmpty \/ (name = "gate" /\ outcome = "empty")]
       IN /\ outcome \in StepOutcomes(name)
          /\ ~ReadOk(driver_instance) => outcome = "error"
          /\ (name = "gate" /\ outcome = "ok") => wf.processed_count < MaxItems
          /\ CASE e.kind = "next" /\ wf.step < Len(Steps) ->
                    /\ wf' = [wf EXCEPT !.step = wf.step + 1, !.ctx = ctx]
                    /\ gh' = g
                    /\ UNCHANGED <<affordance, pc, result>>
               [] e.kind = "next" /\ wf.step = Len(Steps) ->
                    /\ affordance' = affordance
                    /\ PassReturns(PassResult(TRUE, "completed"), g, ctx)
               [] e.kind = "return" ->
                    /\ affordance' = affordance
                    /\ PassReturns(PassResult(FALSE, e.status), g, ctx)
               [] e.kind = "raise" ->
                    /\ pc' = "idle"
                    /\ wf' = [NoWf EXCEPT !.ctx = ctx]
                    /\ result' = Raised("run")
                    /\ gh' = [g EXCEPT !.k = 0, !.restarts = 0, !.sawTimeout = FALSE,
                                       !.entered = FALSE, !.clicked = {}]
                    /\ affordance' = affordance
               [] e.kind \in {"recover1", "recover2"} ->
                    /\ affordance' = IF rec.clicked THEN FALSE ELSE affordance
                    /\ IF rec.restart
                       THEN /\ pc' = "pre"
                            /\ wf' = [wf EXCEPT !.retry_count = wf.retry_count + 1, !.step = 0,
                                                !.ctx = ctx]
                            /\ gh' = [g EXCEPT !.restarts = g.restarts + 1]
                            /\ result' = result
                       ELSE PassReturns(PassResult(FALSE, e.status), g, ctx)
    /\ UNCHANGED <<globals, now, page, srv, act, ep, port, store, sl>>

(***************************************************************************)
(* Specification of the engine                                             *)
(***************************************************************************)
Next ==
    \/ \E id \in EpIds : EndpointDies(id)
    \/ \E id \in EpIds : EndpointHangs(id)
    \/ \E id \in EpIds, u \in Urls : UserNavigates(id, u)
    \/ ProcessRestart
    \/ Bounce
    \/ \E a \in BOOLEAN : CheckStatus(a)
    \/ \E q \in {"ok", "raise"} : CloseSession(q)
    \/ \E a \in BOOLEAN : StartSession(a)
    \/ \E a \in BOOLEAN, w \in SUBSET Strategies, h \in {"ok", "hung"} : StartCreate(a, w, h)
    \/ \E o \in NavOutcomes, q \in {"ok", "raise"} : StartNavigate(o, q)
    \/ WaitInit
    \/ \E m \in BOOLEAN : WaitPoll(m)
    \/ WaitTimeout
    \/ \E a \in BOOLEAN : RunWorkflow(a)
    \/ \E c \in BOOLEAN : PreCheck(c)
    \/ \E o \in {"ok", "timeout", "noboxes", "error", "empty", "blocked", "late_empty",
                 "late_rows", "absent"},
          c \in BOOLEAN : Step(o, c)

Spec == Init /\ [][Next]_vars

(***************************************************************************)
(* Specification of the Session Store: the three file operations applied   *)
(* in any order while the clock advances.  The engine itself never calls   *)
(* load_session_info and never reads the clock except to stamp a record,   *)
(* which is why the clock stands still in Spec.                            *)
(***************************************************************************)
StoreFiles == {Absent, SessionRecord(TRUE, FALSE, NoTs),
               SessionRecord(TRUE, TRUE, StartTime - FreshWindow)}

InitStore ==
    /\ driver_instance \in {None, 1}
    /\ is_logged_in \in BOOLEAN
    /\ driver_instance = None => ~is_logged_in
    /\ sessionFile \in StoreFiles
    /\ now = StartTime
    /\ ep = [i \in EpIds |-> IF i = driver_instance
                             THEN [st |-> "ok", url |-> IF is_logged_in THEN "dashboard" ELSE "login"]
                             ELSE NoEp]
    /\ port = driver_instance
    /\ affordance = FALSE
    /\ pc = "idle"
    /\ result = NoResult
    /\ loaded = Absent
    /\ written = NoWritten
    /\ sl = NoSl
    /\ wf = NoWf
    /\ gh = NoGh
    /\ page = NoPage
    /\ srv = NoSrv
    /\ act = NoAct

\* clock advances so far; the steps are 1 s and FreshWindow - 1 s
Ticks == ((now - StartTime) \div (FreshWindow - 1)) + ((now - StartTime) % (FreshWindow - 1))

Tick(d) ==
    /\ Ticks < MaxTicks
    /\ now' = now + d
    /\ UNCHANGED <<globals, env, pc, result, store, sl, wf, gh, page, srv, act>>

StoreSave ==
    /\ sessionFile' = save_session_info(driver_instance, is_logged_in, now)
    /\ written' = [valid |-> TRUE, has_driver |-> driver_instance # None,
                   is_logged_in |-> is_logged_in, at |-> now]
    /\ UNCHANGED <<driver_instance, is_logged_in, now, page, srv, act, env, pc, result, loaded, sl, wf, gh>>

StoreLoad ==
    /\ loaded' = load_session_info(sessionFile, now)
    /\ UNCHANGED <<globals, now, page, srv, act, env, pc, result, written, sl, wf, gh>>

StoreClear ==
    /\ sessionFile' = clear_session_info
    /\ written' = NoWritten
    /\ UNCHANGED <<driver_instance, is_logged_in, now, page, srv, act, env, pc, result, loaded, sl, wf, gh>>

\* the operator logs in or out between two saves
StoreFlag ==
    /\ driver_instance # None
    /\ is_logged_in' = ~is_logged_in
    /\ UNCHANGED <<driver_instance, sessionFile, now, page, srv, act, env, pc, result, store, sl, wf, gh>>

NextStore ==
    \/ \E d \in {1, FreshWindow - 1} : Tick(d)
    \/ StoreSave
    \/ StoreLoad
    \/ StoreClear
    \/ StoreFlag

SpecStore == InitStore /\ [][NextStore]_vars

\* C9: a record written by save and loaded less than 3600 s later comes back with
\* the has_driver and is_logged_in that were written; a load 3600 s or more after
\* the record's timestamp, or of a record without timestamp, returns absent
\* whatever the record holds; a load after clear returns absent.
C9_RoundTrip ==
    [][StoreLoad =>
         /\ (written.valid /\ now - written.at < FreshWindow) =>
                /\ loaded'.present
                /\ loaded'.has_driver = written.has_driver
                /\ loaded'.is_logged_in = written.is_logged_in
         /\ (sessionFile.present /\ sessionFile.timestamp # NoTs
               /\ now - sessionFile.timestamp >= FreshWindow) => loaded' = Absent
         /\ (sessionFile.present /\ sessionFile.timestamp = NoTs) => loaded' = Absent
         /\ ~sessionFile.present => loaded' = Absent]_vars

\* a saved record was read back one second before the window closed
C9_Witness ==
    /\ written.valid
    /\ loaded.present
    /\ loaded.timestamp = written.at
    /\ now - written.at = FreshWindow - 1

(***************************************************************************)
(* Properties of the loop controller and the step sequencer                *)
(***************************************************************************)
\* a run that went through the loop has returned
LoopReturned == pc = "idle" /\ result.op = "run" /\ result.kind = "returned" /\ gh.last # ""
InLoop == pc \in {"pre", "step"}

\* C1: when the gate of a pass finds the table but no approve button, the pass
\* is the last one: the run returns success, status completed, with the
\* processed_count it had before that pass, which is the number of passes that
\* succeeded before it.
C1_TerminalDetection ==
    [][(pc = "step" /\ Steps[wf.step] = "gate" /\ \E c \in BOOLEAN : Step("empty", c)) =>
          /\ pc' = "idle"
          /\ result'.op = "run" /\ result'.kind = "returned"
          /\ result'.success /\ result'.status = "completed"
          /\ result'.processed_count = wf.processed_count
          /\ result'.processed_count = gh.successes]_vars

\* a run completed on an empty gate after one item had been processed
C1_Witness ==
    /\ LoopReturned /\ gh.gateEmpty
    /\ result.status = "completed" /\ result.processed_count = 1

\* C2: the loop returns a failure exactly when three passes in a row failed
\* (neither success nor the terminal result) with no success between them, and
\* then carries the status of the last of them; the consecutive-error counter is
\* the length of the current run of failures, so every success sets it to 0 and
\* the loop goes on while fewer than three failures are in a row.
C2_BoundedLoopFailure ==
    /\ LoopReturned => /\ ~result.success <=> gh.streak = 3
                       /\ ~result.success => result.status = gh.last
    /\ InLoop => gh.streak < 3 /\ wf.error_count = gh.streak

\* the run was ended by three failures in a row that came after a success
C2_Witness ==
    LoopReturned /\ ~result.success /\ gh.streak = 3 /\ gh.successes = 1

\* C3: in every return of a run that went through the loop, processed_count is
\* the number of passes of that run that returned success.
C3_ProcessedCount ==
    /\ LoopReturned => result.processed_count = gh.successes
    /\ InLoop => wf.processed_count = gh.successes

\* a run with one success, then two failures, then the terminal pass
C3_Witness ==
    /\ LoopReturned /\ result.success
    /\ result.processed_count = 1 /\ gh.streak = 2

Min(a, b) == IF a < b THEN a ELSE b

\* the step taken now ends the pass (the run returns, raises, or starts a new pass)
PassEnds == pc = "step" /\ (pc' = "idle" \/ (pc' = "pre" /\ wf'.retry_count = 0))

\* C4: in a pass with a locate-timeout on a linear step during which the recovery
\* affordance showed up k times, the sequence is restarted from step 1 exactly
\* min(k, 2) times, and the pass fails when k > 2.
C4_BoundedRecovery ==
    [][\A o \in {"ok", "timeout", "error"}, c \in BOOLEAN :
          (Step(o, c) /\ PassEnds /\ (gh.sawTimeout \/ o = "timeout")) =>
              /\ gh.restarts = Min(gh.k, max_retries)
              /\ gh.k > max_retries => gh'.successes = gh.successes]_vars

(***************************************************************************)
(* Properties of the status reporter and the session manager               *)
(***************************************************************************)
\* C5: checkStatus never creates an endpoint: no endpoint is alive after it that
\* was not alive before it, and with no handle and no endpoint on the control
\* port it reports the session closed, unauthenticated, and leaves the handle
\* none and the environment as it was.
C5_StatusProbePurity ==
    [][(\E a \in BOOLEAN : CheckStatus(a)) =>
          /\ \A i \in EpIds : ep'[i].st # "none" => ep[i].st # "none"
          /\ (driver_instance = None /\ port = None) =>
                /\ driver_instance' = None
                /\ ~result'.browser_open /\ ~result'.logged_in
                /\ ep' = ep /\ port' = port]_vars

\* checkStatus has answered with no handle and no endpoint anywhere
C5_Witness ==
    /\ pc = "idle" /\ result.op = "check" /\ ~result.browser_open
    /\ driver_instance = None /\ port = None
    /\ \A i \in EpIds : ep[i].st = "none"

\* C6: after a process restart (no handle, flag false) with an endpoint still
\* alive on the control port and an attach that succeeds, checkStatus adopts that
\* endpoint and reports the session open; and if the endpoint's location is
\* authenticated, startSession returns success, already_logged_in, with
\* reused_session true, creating no endpoint and navigating nowhere.
C6_RestartSurvivability ==
    [][/\ (CheckStatus(TRUE) /\ driver_instance = None /\ ReadOk(port)) =>
             /\ driver_instance' = port /\ result'.browser_open
             /\ ep' = ep /\ port' = port
       /\ (StartSession(TRUE) /\ driver_instance = None /\ ReadOk(port)
             /\ LoggedInUrl(ep[port].url)) =>
             /\ pc' = "idle" /\ result'.op = "start" /\ result'.kind = "returned"
             /\ result'.success /\ result'.status = "already_logged_in"
             /\ result'.reused_session
             /\ driver_instance' = port /\ is_logged_in'
             /\ ep' = ep /\ port' = port]_vars

\* startSession has reused an endpoint it adopted from the control port
C6_Witness ==
    /\ pc = "idle" /\ result.op = "start" /\ result.status = "already_logged_in"
    /\ result.reused_session /\ gh.adopted /\ driver_instance = port

\* C7: an operation that found its endpoint unreachable returns with the handle
\* none and the session record absent.
C7_UnreachableClears ==
    (pc = "idle" /\ result.op \in {"check", "start", "run"} /\ gh.sawUnreachable) =>
        (driver_instance = None /\ ~sessionFile.present)

\* C8: no engine operation raises to its caller; each ends in a returned result.
C8_NeverRaises == result.kind = "returned"

C10_Order == <<"auto", "v140", "managed", "v139", "v138", "v137", "v136">>

\* C10: with no endpoint to adopt, creation tries default auto-detect, version
\* 140, managed-driver, then 139, 138, 137, 136, in that order, each only after
\* all before it failed, stops at the first that works and uses its endpoint, and
\* fails only after all seven failed; with an endpoint adopted none is tried.
C10_StrategyOrder ==
    [][pc = "create" =>
       \A a \in BOOLEAN, w \in SUBSET Strategies, h \in {"ok", "hung"} :
          StartCreate(a, w, h) =>
             LET t == Tail(gh'.tried)
                 adopt == try_connect_to_existing_chrome(a) # None
             IN /\ Head(gh'.tried) = "attach"
                /\ adopt => t = << >> /\ ~gh'.created /\ pc' = "nav"
                /\ ~adopt =>
                     /\ Len(t) \in 1..Len(C10_Order)
                     /\ \A i \in 1..Len(t) : t[i] = C10_Order[i]
                     /\ \A i \in 1..(Len(t) - 1) : t[i] \notin w
                     /\ t[Len(t)] \in w <=> gh'.created
                     /\ gh'.created <=> pc' = "nav"
                     /\ ~gh'.created => Len(t) = Len(C10_Order) /\ pc' = "idle"]_vars

\* creation got its endpoint from version 139 after three strategies had failed
C10_Witness ==
    pc = "nav" /\ gh.created /\ gh.tried = <<"attach", "auto", "v140", "managed", "v139">>

(***************************************************************************)
(* Properties of the status probe's classification                         *)
(***************************************************************************)
\* C11: with a live handle, checkStatus reports the session open and reports
\* logged_in true exactly when the endpoint's location is on the target site and
\* has no login pattern (true on the dashboard, false on the login page), and
\* the in-memory flag takes the same value.
C11_AuthClassification ==
    [][(driver_instance # None /\ ReadOk(driver_instance)
          /\ \E a \in BOOLEAN : CheckStatus(a)) =>
          LET u == ep[driver_instance].url
          IN /\ result'.op = "check" /\ result'.browser_open
             /\ result'.logged_in <=> (OnSite(u) /\ ~HasLogin(u))
             /\ u = "dashboard" => result'.logged_in
             /\ u = "login" => ~result'.logged_in
             /\ is_logged_in' = result'.logged_in
             /\ driver_instance' = driver_instance]_vars

\* checkStatus has found its live handle on the dashboard
C11_Witness ==
    /\ pc = "idle" /\ result.op = "check" /\ result.browser_open /\ result.logged_in
    /\ is_logged_in /\ ~gh.adopted
    /\ ReadOk(driver_instance) /\ ep[driver_instance].url = "dashboard"

(***************************************************************************)
(* Properties of runWorkflow's preconditions                               *)
(***************************************************************************)
\* C12: runWorkflow starts the step sequencer only on a session that is open and
\* authenticated.  With no reachable session (no handle and nothing adopted, or a
\* handle that does not answer) it returns failure browser_not_open; with a
\* reachable session whose location is not authenticated it returns failure
\* not_logged_in; in both cases it returns at once and no step is taken.
C12_Preconditions ==
    [][\A a \in BOOLEAN : RunWorkflow(a) =>
          LET h == IF driver_instance # None THEN driver_instance
                   ELSE IF a THEN port ELSE None
              reachable == ReadOk(h)
              authed == reachable /\ OnSite(ep[h].url) /\ ~HasLogin(ep[h].url)
              refused(st) == /\ pc' = "idle" /\ wf' = wf
                             /\ result'.op = "run" /\ result'.kind = "returned"
                             /\ ~result'.success /\ result'.status = st
                             /\ result'.processed_count = 0
          IN /\ ~reachable => refused("browser_not_open")
             /\ (reachable /\ ~authed) => refused("not_logged_in")
             /\ pc' # "idle" => /\ authed /\ pc' = "pre"
                                /\ driver_instance' = h /\ is_logged_in']_vars

\* runWorkflow has refused an open session that sits on the login page
C12_Witness ==
    /\ pc = "idle" /\ result.op = "run" /\ result.status = "not_logged_in"
    /\ ReadOk(driver_instance) /\ ep[driver_instance].url = "login"
    /\ wf.step = 0

(***************************************************************************)
(* Specification of the state-checked steps: passes of the sequencer over  *)
(* the widgets these steps read before they click.  The other steps of a   *)
(* pass do not touch these widgets and are left out here.                  *)
(***************************************************************************)
CheckedSteps == <<"dealerReg", "newReg", "verifyChk", "sweep", "radio">>
BoxStates == {"unchecked", "checked", "disabled"}
BoxLists == UNION {[1..n -> BoxStates] : n \in 0..MaxBoxes}

ToggleStep_blind(expanded, probe) ==
    IF probe = "ok" /\ expanded
    THEN [clicks |-> 0, state |-> TRUE, found |-> TRUE]
    ELSE [clicks |-> 1, state |-> ~expanded, found |-> TRUE]

\* steps 2 and 3: the expanded-arrow probe, then the wait for the collapsed
\* toggler and the click; when the probe raises the same wait is tried anyway.
\* The toggler that is waited for carries the collapsed arrow, so on an expanded
\* row the wait finds nothing and times out.
ToggleStep(expanded, probe) ==
    IF probe = "ok" /\ expanded
    THEN [clicks |-> 0, state |-> TRUE, found |-> TRUE]
    ELSE IF expanded
    THEN [clicks |-> 0, state |-> TRUE, found |-> FALSE]
    ELSE [clicks |-> 1, state |-> TRUE, found |-> TRUE]

\* step 6 and step 18: click the box unless it has ui-state-active
ActiveStep(active) ==
    IF active THEN [clicks |-> 0, state |-> TRUE] ELSE [clicks |-> 1, state |-> TRUE]

\* step 12, one checkbox: skip if disabled, skip if checked, otherwise click
SweepBox(b) ==
    IF b = "disabled" THEN [clicks |-> 0, state |-> b]
    ELSE IF b = "checked" THEN [clicks |-> 0, state |-> b]
    ELSE [clicks |-> 1, state |-> "checked"]

RECURSIVE SumClicks(_, _)
SumClicks(boxes, i) ==
    IF i > Len(boxes) THEN 0 ELSE SweepBox(boxes[i]).clicks + SumClicks(boxes, i + 1)

\* step 12: the loop over approved_checkboxes
Sweep(boxes) ==
    [clicks |-> SumClicks(boxes, 1),
     boxes |-> [i \in 1..Len(boxes) |-> SweepBox(boxes[i]).state]]

\* every state-checked widget is in the state its step wants
AllDesired(pg) ==
    /\ pg.dealer /\ pg.newReg /\ pg.verify /\ pg.radio
    /\ \A i \in 1..Len(pg.boxes) : pg.boxes[i] # "unchecked"

InitSteps ==
    /\ driver_instance = 1
    /\ is_logged_in = TRUE
    /\ sessionFile = Absent
    /\ now = StartTime
    /\ ep = [i \in EpIds |-> IF i = 1 THEN [st |-> "ok", url |-> "dashboard"] ELSE NoEp]
    /\ port = 1
    /\ affordance = FALSE
    /\ pc = "step"
    /\ result = NoResult
    /\ loaded = Absent
    /\ written = NoWritten
    /\ sl = NoSl
    /\ wf = NoWf
    /\ gh = NoGh
    /\ \E d \in BOOLEAN, n \in BOOLEAN, v \in BOOLEAN, r \in BOOLEAN, bs \in BoxLists :
          page = [NoPage EXCEPT !.dealer = d, !.newReg = d /\ n, !.verify = v,
                                !.radio = r, !.boxes = bs]
    /\ srv = NoSrv
    /\ act = NoAct

\* a pass reaches the first state-checked step
BeginPass ==
    /\ page.pos = 0
    /\ page.passes < MaxPasses
    /\ page' = [page EXCEPT !.pos = 1, !.prev = page.clicks, !.clicks = 0,
                            !.desired = AllDesired(page)]
    /\ UNCHANGED <<globals, now, env, pc, result, store, sl, wf, gh, srv, act>>

\* the pass leaves the state-checked steps (after the last one, or on a timeout)
EndPass(pg) == [pg EXCEPT !.pos = 0, !.passes = pg.passes + 1]

\* the state-checked step at the pass's position
CheckedStep(probe) ==
    /\ page.pos \in 1..Len(CheckedSteps)
    /\ LET name == CheckedSteps[page.pos]
           t == ToggleStep(IF name = "dealerReg" THEN page.dealer ELSE page.newReg, probe)
           a == ActiveStep(IF name = "verifyChk" THEN page.verify ELSE page.radio)
           w == Sweep(page.boxes)
           on == [page EXCEPT !.pos = page.pos + 1]
       IN page' =
            IF name \in {"dealerReg", "newReg"}
            THEN IF ~t.found THEN EndPass(page)
                 ELSE IF name = "dealerReg"
                 THEN [on EXCEPT !.dealer = t.state, !.clicks = page.clicks + t.clicks]
                 ELSE [on EXCEPT !.newReg = t.state, !.clicks = page.clicks + t.clicks]
            ELSE IF name = "verifyChk"
            THEN [on EXCEPT !.verify = a.state, !.clicks = page.clicks + a.clicks]
            ELSE IF name = "sweep"
            THEN [on EXCEPT !.boxes = w.boxes, !.clicks = page.clicks + w.clicks]
            ELSE EndPass([page EXCEPT !.radio = a.state, !.clicks = page.clicks + a.clicks])
    /\ UNCHANGED <<globals, now, env, pc, result, store, sl, wf, gh, srv, act>>

\* between two passes the site opens the next application: its checkbox, radio
\* and document list are new, the tree stays as it was
NextApplication(v, r, bs) ==
    /\ page.pos = 0
    /\ page.passes \in 1..(MaxPasses - 1)
    /\ page' = [page EXCEPT !.verify = v, !.radio = r, !.boxes = bs]
    /\ page' # page
    /\ UNCHANGED <<globals, now, env, pc, result, store, sl, wf, gh, srv, act>>

NextSteps ==
    \/ BeginPass
    \/ \E pr \in {"ok", "raise"} : CheckedStep(pr)
    \/ \E v \in BOOLEAN, r \in BOOLEAN, bs \in BoxLists : NextApplication(v, r, bs)

SpecSteps == InitSteps /\ [][NextSteps]_vars

\* C13: a state-checked step (Dealer Registration toggle, New Registration toggle,
\* verification checkbox, each approvedStatus checkbox of the sweep, Proceed to
\* Next Seat radio) clicks nothing and leaves its widget as it is when the widget
\* is already expanded, checked, selected or disabled; a pass that starts with
\* every such widget in its desired state ends with zero clicks on these steps.
C13_IdempotentSteps ==
    [][\A pr \in {"ok", "raise"} : CheckedStep(pr) =>
          LET name == CheckedSteps[page.pos]
              same == page'.clicks = page.clicks
          IN /\ (name = "dealerReg" /\ page.dealer) => same /\ page'.dealer
             /\ (name = "newReg" /\ page.newReg) => same /\ page'.newReg
             /\ (name = "verifyChk" /\ page.verify) => same /\ page'.verify
             /\ (name = "radio" /\ page.radio) => same /\ page'.radio
             /\ name = "sweep" =>
                  /\ \A i \in 1..Len(page.boxes) :
                        page.boxes[i] # "unchecked" => page'.boxes[i] = page.boxes[i]
                  /\ page'.clicks - page.clicks =
                        Cardinality({i \in 1..Len(page.boxes) : page.boxes[i] = "unchecked"})
             /\ page.desired => page'.clicks = 0]_vars

\* two passes in a row: the first clicked, the second found everything desired
\* and clicked nothing
C13_Witness ==
    /\ page.pos = 0 /\ page.passes = 2
    /\ page.desired /\ page.clicks = 0 /\ page.prev > 0
    /\ Len(page.boxes) = 2 /\ page.boxes[1] = "disabled"

(***************************************************************************)
(* Properties of the login gate                                            *)
(***************************************************************************)
\* wait_for_login has handed v to start_vahan_browser, which returns at once
GateReturns(v) ==
    /\ pc' = "idle" /\ result'.op = "start" /\ result'.kind = "returned"
    /\ result'.status = (IF v THEN "login_success" ELSE "login_timeout")
    /\ result'.success = v

\* C14: a poll of the login wait returns true exactly when its location read
\* answers and either the location differs from the one read at the start of the
\* wait and has no login pattern, or a post-login marker is on the page; a poll
\* whose read failed never returns true.
C14_GateSuccessRule ==
    [][\A m \in BOOLEAN : WaitPoll(m) =>
          LET d == driver_instance
              moved == ep[d].url # sl.login_url /\ ep[d].url \notin {"login", "offsite_login"}
          IN /\ GateReturns(TRUE) <=> (ReadOk(d) /\ (moved \/ m))
             /\ ~ReadOk(d) => ~GateReturns(TRUE)]_vars

\* the wait began on the login page and was acknowledged on the dashboard
C14_Witness ==
    /\ pc = "idle" /\ result.op = "start" /\ result.status = "login_success"
    /\ ReadOk(driver_instance) /\ ep[driver_instance].url = "dashboard"
    /\ is_logged_in

\* the engine goes on with the operation in progress
SpecLive ==
    /\ Spec
    /\ WF_vars(WaitInit)
    /\ WF_vars(\E m \in BOOLEAN : WaitPoll(m))
    /\ WF_vars(WaitTimeout)

InGate == pc \in {"wait_init", "wait_poll"}

\* C15: the login wait always returns; it returns false when the initial location
\* read fails, false on the first poll whose read fails (that poll is the last),
\* and false when the timeout has elapsed without a successful poll.
C15_GateTermination ==
    /\ InGate ~> pc = "idle"
    /\ [][/\ (WaitInit /\ ~ReadOk(driver_instance)) => GateReturns(FALSE)
          /\ \A m \in BOOLEAN :
                (WaitPoll(m) /\ ~ReadOk(driver_instance)) => GateReturns(FALSE)
          /\ WaitTimeout => GateReturns(FALSE)]_vars

\* the wait was ended by a poll that could not read the location
C15_Witness ==
    /\ pc = "idle" /\ result.op = "start" /\ result.status = "login_timeout"
    /\ gh.sawUnreachable /\ driver_instance # None /\ ~ReadOk(driver_instance)

(***************************************************************************)
(* Properties of startSession after the login wait, and of closeSession    *)
(***************************************************************************)
\* C16: when the login wait ends without authentication, startSession returns
\* failure with status login_timeout and leaves the endpoints, the control port
\* and the handle as they were; a startSession that follows while that endpoint
\* still answers keeps the same handle and creates no endpoint: it waits for the
\* login again (or reports already_logged_in if the operator has logged in since).
C16_LoginTimeoutKeepsSession ==
    [][/\ (InGate /\ pc' = "idle" /\ ~result'.success) =>
             /\ result'.op = "start" /\ result'.kind = "returned"
             /\ result'.status = "login_timeout"
             /\ driver_instance' = driver_instance /\ driver_instance # None
             /\ ep' = ep /\ port' = port
       /\ \A a \in BOOLEAN :
             (StartSession(a) /\ result.op = "start" /\ result.status = "login_timeout"
                /\ ReadOk(driver_instance)) =>
                LET u == ep[driver_instance].url
                    authed == OnSite(u) /\ ~HasLogin(u)
                IN /\ driver_instance' = driver_instance
                   /\ ep' = ep /\ port' = port
                   /\ ~authed => pc' = "wait_init"
                   /\ authed => pc' = "idle" /\ result'.status = "already_logged_in"]_vars

\* a startSession that followed a login_timeout was acknowledged on the same
\* endpoint, none having been created
C16_Witness ==
    /\ pc = "idle" /\ result.op = "start" /\ result.status = "login_success"
    /\ gh.afterTimeout /\ ~gh.created /\ gh.tried = << >>
    /\ ReadOk(driver_instance)

\* C17: after closeSession the handle is none, the auth flag is false and no
\* session record exists, whether the termination succeeded, raised, or there was
\* no handle; it returns true when there was no handle or the termination
\* succeeded and false when it raised, so a closeSession right after another
\* returns true.
C17_ClosePostcondition ==
    [][\A q \in {"ok", "raise"} : CloseSession(q) =>
          /\ pc' = "idle" /\ result'.op = "close" /\ result'.kind = "returned"
          /\ driver_instance' = None
          /\ ~is_logged_in'
          /\ ~sessionFile'.present
          /\ result'.success <=> (driver_instance = None \/ q = "ok")
          /\ (result.op = "close" /\ pc = "idle") => result'.success]_vars

\* closeSession has returned false: the termination raised, yet all is cleared
C17_Witness ==
    /\ pc = "idle" /\ result.op = "close" /\ ~result.success
    /\ driver_instance = None /\ ~is_logged_in /\ ~sessionFile.present
    /\ port # None

(***************************************************************************)
(* Properties of the session record's lifecycle                            *)
(***************************************************************************)
\* C18: when an engine operation returns having changed the auth flag, a session
\* record exists whose is_logged_in is the new value of the flag (also when
\* startSession returns login_success on a browser that was open but not logged
\* in); after closeSession, and after a status check whose liveness read failed,
\* no record exists.
C18_RecordLifecycle ==
    [][/\ (is_logged_in' # is_logged_in /\ pc' = "idle"
             /\ result'.op \in {"check", "start", "run"} /\ ~gh'.sawUnreachable) =>
             /\ sessionFile'.present
             /\ sessionFile'.is_logged_in = is_logged_in'
       /\ (\E q \in {"ok", "raise"} : CloseSession(q)) => ~sessionFile'.present
       /\ (driver_instance # None /\ ~ReadOk(driver_instance)
             /\ \E a \in BOOLEAN : CheckStatus(a)) => ~sessionFile'.present]_vars

(***************************************************************************)
(* Properties of the start of a fresh session                              *)
(***************************************************************************)
\* C19: on a new endpoint startSession tries to load the target page at most 3
\* times.  An attempt fails by page-load timeout, by network error or by landing
\* on a location that is neither the site nor a login page; after a failed
\* attempt that is not the third it tries again, after the third it tries to
\* terminate the endpoint and returns failure connection_error without entering
\* the login wait; an attempt that loads the page ends the retries and enters
\* the login wait.
C19_NavigationRetry ==
    [][\A o \in NavOutcomes, q \in {"ok", "raise"} : StartNavigate(o, q) =>
          LET d == driver_instance
              failed == o \in {"timeout", "neterr", "offsite"}
              arrived == o \in {"login", "dashboard", "offsite_login"}
          IN /\ sl.retry_count < 3
             /\ (failed /\ sl.retry_count < 2) =>
                   /\ pc' = "nav" /\ sl'.retry_count = sl.retry_count + 1
                   /\ driver_instance' = d
             /\ (failed /\ sl.retry_count = 2) =>
                   /\ pc' = "idle" /\ result'.op = "start" /\ result'.kind = "returned"
                   /\ ~result'.success /\ result'.status = "connection_error"
                   /\ q = "ok" => driver_instance' = None /\ ep'[d].st = "none"
             /\ arrived => pc' = "wait_init" /\ driver_instance' = d
             /\ pc' = "wait_init" => arrived]_vars

\* the third attempt failed, the endpoint was terminated and the call returned
C19_Witness ==
    /\ pc = "idle" /\ result.op = "start" /\ result.status = "connection_error"
    /\ driver_instance = None /\ gh.created /\ \A i \in EpIds : ep[i].st = "none"

\* C20: when nothing can be adopted and every creation strategy fails, creation
\* fails with the remediation text; startSession returns failure carrying that
\* text in its message, with the handle none, no endpoint created, and a status
\* that is neither login_success nor already_logged_in.
C20_CreationExhausted ==
    [][pc = "create" =>
       \A a \in BOOLEAN, h \in {"ok", "hung"} :
          (StartCreate(a, {}, h) /\ ~(a /\ ReadOk(port))) =>
             /\ pc' = "idle" /\ result'.op = "start" /\ result'.kind = "returned"
             /\ ~result'.success
             /\ result'.status \notin {"login_success", "already_logged_in"}
             /\ result'.message = <<"Error starting Vahan browser: ",
                   "Chrome Driver Initialization Failed: update Chrome, restart, update packages">>
             /\ driver_instance' = None
             /\ ep' = ep /\ port' = port
             /\ Len(gh'.tried) = 8]_vars

\* startSession has returned after the attach and all seven strategies failed
C20_Witness ==
    /\ pc = "idle" /\ result.op = "start" /\ result.status = "error"
    /\ Len(gh.tried) = 8 /\ ~gh.created /\ driver_instance = None
    /\ result.message # << >>

(***************************************************************************)
(* Properties of the status probe's liveness read                          *)
(***************************************************************************)
\* C21: when checkStatus holds a handle, its own or one it has just adopted, and
\* the liveness read fails, the handle becomes none, the auth flag false, the
\* session record is deleted and the session is reported closed and
\* unauthenticated; when the read answers, a record is written with has_driver
\* true and is_logged_in equal to the reported logged_in.
C21_LivenessRead ==
    [][\A a \in BOOLEAN : CheckStatus(a) =>
          LET h == IF driver_instance # None THEN driver_instance
                   ELSE IF a /\ ReadOk(port) THEN port ELSE None
          IN /\ (h # None /\ ~ReadOk(h)) =>
                   /\ driver_instance' = None /\ ~is_logged_in'
                   /\ ~sessionFile'.present
                   /\ ~result'.browser_open /\ ~result'.logged_in
             /\ (h # None /\ ReadOk(h)) =>
                   /\ driver_instance' = h /\ result'.browser_open
                   /\ sessionFile'.present /\ sessionFile'.has_driver
                   /\ sessionFile'.is_logged_in = result'.logged_in
                   /\ sessionFile'.timestamp = now]_vars

\* checkStatus found its handle dead while the process still had a record of it
C21_Witness ==
    /\ pc = "idle" /\ result.op = "check" /\ ~result.browser_open
    /\ gh.sawUnreachable /\ driver_instance = None /\ ~is_logged_in
    /\ ~sessionFile.present /\ port # None

\* C22: the login gate and the status reporter classify by the same location
\* rule: after startSession returned login_success, with the endpoint alive and
\* its location still the one the gate acknowledged, a checkStatus that follows
\* at once reports logged_in true and a runWorkflow that follows at once does not
\* return not_logged_in.
C22_SameRule ==
    [][\A a \in BOOLEAN :
          (/\ pc = "idle" /\ result.op = "start" /\ result.status = "login_success"
           /\ ReadOk(driver_instance) /\ ep[driver_instance].url = gh.ackUrl) =>
             /\ CheckStatus(a) => result'.browser_open /\ result'.logged_in
             /\ RunWorkflow(a) => result'.status # "not_logged_in"]_vars

\* C27: the session manager hands startSession a handle only for an endpoint that
\* has answered a liveness read, on the attach path and for every creation
\* strategy.
C27_HandleIsLive ==
    [][pc = "create" =>
       \A a \in BOOLEAN, w \in SUBSET Strategies, h \in {"ok", "hung"} :
          (StartCreate(a, w, h) /\ driver_instance' # None) =>
             ep'[driver_instance'].st = "ok"]_vars

\* C23: when the locate wait of any step of the linear sequence expires while
\* the recovery affordance is shown, the click on it works and restart budget
\* remains, the sequencer clicks the affordance, uses one unit of the budget
\* and runs the sequence again from step 1 (the two waits that are optional
\* by design, the alert and the modal wait, and the wait for the document to
\* be ready, which locates nothing, are left out).
C23_RecoveryAtEveryStep ==
    [][\A c \in BOOLEAN :
          (/\ Step("timeout", c)
           /\ Steps[wf.step] \notin {"gate", "alert", "modalWait", "ready"}
           /\ check_for_back_to_home_page(c)
           /\ wf.retry_count < max_retries) =>
             /\ pc' = "pre"
             /\ wf'.retry_count = wf.retry_count + 1
             /\ wf'.step = 0
             /\ ~affordance']_vars

\* C24: every exit path of the checkbox sweep that entered the nested frame
\* (normal completion, expiry of the wait for a first checkbox, any other
\* exception, the recovery restart) leaves the driver in the top-level
\* context, and the pre-check and every step other than the sweep start in the
\* top-level context.
C24_ContextSwitchDiscipline ==
    [][/\ \A o \in {"ok", "timeout", "noboxes", "error"}, c \in BOOLEAN :
             (Step(o, c) /\ Steps[wf.step] = "sweep" /\ FrameEntered(o)) => wf'.ctx = "top"
       /\ \A o \in {"ok", "timeout", "error", "empty", "blocked", "late_empty",
                    "late_rows", "absent"}, c \in BOOLEAN :
             (Step(o, c) /\ Steps[wf.step] # "sweep") => wf.ctx = "top"
       /\ \A c \in BOOLEAN : PreCheck(c) => wf.ctx = "top"]_vars

\* the wait for a first checkbox expired inside the frame, the affordance was
\* clicked and the sequence restarted
C24_Witness ==
    /\ pc = "pre"
    /\ gh.entered
    /\ gh.restarts >= 1
    /\ wf.retry_count >= 1
    /\ wf.ctx = "top"

\* C25: once the sweep has entered the nested frame and the driver raises
\* nothing but per-element errors, the sweep succeeds and the sequencer goes on
\* to the next step for every size of the set of checkboxes, the empty set
\* included.
C25_SweepNeverFails ==
    [][\A o \in {"ok", "noboxes"}, c \in BOOLEAN :
          (Step(o, c) /\ Steps[wf.step] = "sweep") =>
             /\ pc' = "step"
             /\ wf'.step = wf.step + 1]_vars

\* C26: when the wait of a step (other than the work-item gate and the waits
\* that are optional by design) expires and no recovery affordance is shown,
\* the pass fails with a status code that the expiry of no other step's wait
\* yields: the code identifies the step.
C26_StepSpecificCode ==
    [][\A c \in BOOLEAN :
          (/\ Step("timeout", c)
           /\ ~affordance
           /\ Steps[wf.step] # "gate"
           /\ TimeoutEffect(Steps[wf.step]).kind # "next") =>
             \A m \in 1..Len(Steps) :
                (m # wf.step /\ Steps[m] # "gate") =>
                   TimeoutEffect(Steps[m]).status # TimeoutEffect(Steps[wf.step]).status]_vars

\* a pass in progress goes on: the pre-check and every step of the sequence
\* terminate (every wait of the sequence is bounded)
SpecRun ==
    /\ Spec
    /\ WF_vars(\E c \in BOOLEAN : PreCheck(c))
    /\ WF_vars(\E o \in {"ok", "timeout", "noboxes", "error", "empty", "blocked",
                         "late_empty", "late_rows", "absent"}, c \in BOOLEAN : Step(o, c))

C30_SuccessMeansConfirmed ==
    [][\A o \in {"ok", "timeout", "error", "blocked", "late_empty", "late_rows",
                 "absent", "empty"}, c \in BOOLEAN :
          Step(o, c) =>
             /\ (pc' # "idle" /\ wf'.processed_count # wf.processed_count) =>
                   /\ wf'.processed_count = wf.processed_count + 1
                   /\ Steps[wf.step] = "yes"
                   /\ o = "ok"
                   /\ {"gate", "save"} \subseteq gh.clicked
             /\ (Steps[wf.step] \in {"gate", "save", "yes"} /\ o # "ok") =>
                   /\ pc' \in {"idle", "pre"}
                   /\ pc' = "pre" => wf'.processed_count = wf.processed_count
                   /\ wf'.step = 0
                   /\ StepEffect(Steps[wf.step], o).status # ""
                   /\ (pc' = "idle" /\ o \notin {"empty", "late_empty"}) =>
                         /\ ~result'.success
                         /\ result'.status = StepEffect(Steps[wf.step], o).status
                         /\ result'.processed_count = wf.processed_count
             /\ (pc' = "idle" /\ result'.kind = "returned") =>
                   result'.processed_count = wf.processed_count]_vars

\* a pass has just succeeded: the three buttons were clicked and the next pass
\* starts with one more item counted
C30_Witness ==
    /\ pc = "pre"
    /\ wf.processed_count = 1
    /\ wf.error_count = 0
    /\ gh.successes = 1
    /\ gh.clicked = {}

\* C31: when the pending-applications table container does not appear within
\* its wait, the pass returns table_not_found: the run does not complete on it,
\* the loop counts one more consecutive error, and a run that ends there fails
\* with status table_not_found.
C31_NoTerminalWithoutTable ==
    [][\A o \in {"late_empty", "late_rows", "absent"}, c \in BOOLEAN :
          (Step(o, c) /\ Steps[wf.step] = "gate") =>
             /\ GateEffect(o) = Return("table_not_found")
             /\ pc' = "pre" => wf'.error_count = wf.error_count + 1
             /\ pc' = "idle" => (~result'.success /\ result'.status = "table_not_found")]_vars

\* what the probes of the endpoint say, computed without the Session Record:
\* the handle in memory or else the endpoint behind the debugging port, kept
\* only if it answers the liveness read, and the class of its location
C32_Probe(attachOk) ==
    LET h == IF driver_instance # None THEN driver_instance
             ELSE IF attachOk /\ ReadOk(port) THEN port ELSE None
        open == h # None /\ ReadOk(h)
    IN [handle |-> IF open THEN h ELSE None,
        open |-> open,
        logged |-> open /\ LoggedInUrl(ep[h].url),
        flag |-> IF h = None THEN is_logged_in ELSE open /\ LoggedInUrl(ep[h].url)]

\* C32: the Session Record decides nothing.  The runs explored start with and
\* without a record; in all of them the result of checkStatus, the entry of
\* startSession, the precondition of runWorkflow and closeSession, and the
\* handle and auth flag they leave, are the values given by the probes of the
\* endpoint and the in-memory state alone.
C32_RecordDecidesNothing ==
    [][/\ \A a \in BOOLEAN :
             LET p == C32_Probe(a)
             IN /\ CheckStatus(a) =>
                      /\ driver_instance' = p.handle /\ is_logged_in' = p.flag
                      /\ result'.browser_open = p.open /\ result'.logged_in = p.logged
                /\ StartSession(a) =>
                      /\ driver_instance' = p.handle /\ is_logged_in' = p.flag
                      /\ pc' = IF p.logged THEN "idle"
                               ELSE IF p.open THEN "wait_init" ELSE "create"
                      /\ p.logged => result'.status = "already_logged_in"
                /\ RunWorkflow(a) =>
                      /\ driver_instance' = p.handle /\ is_logged_in' = p.flag
                      /\ pc' = IF p.logged THEN "pre" ELSE "idle"
                      /\ ~p.open => result'.status = "browser_not_open"
                      /\ (p.open /\ ~p.logged) => result'.status = "not_logged_in"
       /\ \A q \in {"ok", "raise"} :
             CloseSession(q) =>
                /\ driver_instance' = None
                /\ is_logged_in' = IF driver_instance # None THEN FALSE ELSE is_logged_in
                /\ result'.success = (q = "ok" \/ driver_instance = None)]_vars

\* checkStatus has just reported no browser although a fresh record says that
\* a browser exists and is logged in
C32_Witness ==
    /\ pc = "idle"
    /\ result.op = "check"
    /\ ~result.browser_open
    /\ driver_instance = None
    /\ load_session_info(sessionFile, now).present
    /\ sessionFile.has_driver /\ sessionFile.is_logged_in

(***************************************************************************)
(* The facade (main.py): one uvicorn server, one event loop.  The handlers *)
(* of the engine endpoints are coroutines that call the engine function    *)
(* directly and never await.                                               *)
(***************************************************************************)
\* the endpoints that call an engine operation
EngineEndpoints == {"start-browser", "check-browser-status", "close-browser",
                    "run-automation", "shutdown"}

LoopFree_threadpool(running) == TRUE

\* the event loop can start a handler only when no coroutine is executing: a
\* handler declared async def that contains no await keeps the loop from its
\* first statement to its return
LoopFree(running) == running = << >>

RemoveAt(seq, i) == [j \in 1..(Len(seq) - 1) |-> IF j < i THEN seq[j] ELSE seq[j + 1]]

InitFacade ==
    /\ driver_instance = None
    /\ is_logged_in = FALSE
    /\ sessionFile = Absent
    /\ now = StartTime
    /\ ep = [i \in EpIds |-> NoEp]
    /\ port = None
    /\ affordance = FALSE
    /\ pc = "idle"
    /\ result = NoResult
    /\ loaded = Absent
    /\ written = NoWritten
    /\ sl = NoSl
    /\ wf = NoWf
    /\ gh = NoGh
    /\ page = NoPage
    /\ srv = NoSrv
    /\ act = NoAct

\* a client sends a request; the server accepts the connection
Accept(k) ==
    /\ Len(srv.pending) < MaxPending
    /\ srv' = [srv EXCEPT !.pending = Append(srv.pending, k)]
    /\ UNCHANGED <<globals, now, env, pc, result, store, sl, wf, gh, page, act>>

\* the event loop calls the handler of the oldest request, which enters its
\* engine function
StartHandler ==
    /\ srv.pending # << >>
    /\ LoopFree(srv.running)
    /\ srv' = [pending |-> Tail(srv.pending),
               running |-> Append(srv.running, [kind |-> Head(srv.pending), at |-> "engine"])]
    /\ UNCHANGED <<globals, now, env, pc, result, store, sl, wf, gh, page, act>>

\* the engine function returns to the handler, which builds the response
EngineReturns(i) ==
    /\ i \in 1..Len(srv.running)
    /\ srv.running[i].at = "engine"
    /\ srv' = [srv EXCEPT !.running[i].at = "reply"]
    /\ UNCHANGED <<globals, now, env, pc, result, store, sl, wf, gh, page, act>>

\* the handler returns its response
Respond(i) ==
    /\ i \in 1..Len(srv.running)
    /\ srv.running[i].at = "reply"
    /\ srv' = [srv EXCEPT !.running = RemoveAt(srv.running, i)]
    /\ UNCHANGED <<globals, now, env, pc, result, store, sl, wf, gh, page, act>>

NextFacade ==
    \/ \E k \in EngineEndpoints : Accept(k)
    \/ StartHandler
    \/ \E i \in 1..MaxPending : EngineReturns(i)
    \/ \E i \in 1..MaxPending : Respond(i)

SpecFacade == InitFacade /\ [][NextFacade]_vars

C34_RecoveryCounterScope ==
    [][/\ InLoop' => /\ wf'.retry_count = gh'.restarts
                     /\ wf'.retry_count <= max_retries
       /\ (PassEnds /\ pc' = "pre") => wf'.retry_count = 0
       /\ (pc = "idle" /\ pc' = "pre") => wf'.retry_count = 0]_vars

\* a pass restarted twice, at least once from the checkbox sweep
C34_Witness ==
    /\ pc = "step"
    /\ wf.retry_count = max_retries
    /\ gh.restarts = max_retries
    /\ gh.entered

\* C35: whenever the sequencer clicks the recovery affordance, the wait of the
\* step in progress has just expired, restart budget is left, and the click is
\* followed by a restart from step 1 that uses one unit of the budget.
C35_ClickMeansRestart ==
    [][(/\ affordance /\ ~affordance'
        /\ \/ \E c \in BOOLEAN : PreCheck(c)
           \/ \E o \in {"ok", "timeout", "noboxes", "error"}, c \in BOOLEAN : Step(o, c)) =>
          /\ \E o \in {"timeout", "noboxes"}, c \in BOOLEAN : Step(o, c)
          /\ wf.retry_count < max_retries
          /\ pc' = "pre"
          /\ wf'.retry_count = wf.retry_count + 1]_vars

\* C36: between engine operations the in-memory auth flag is true only if the
\* in-memory handle is not none.
C36_FlagNeedsHandle ==
    pc = "idle" => (is_logged_in => driver_instance # None)

\* a run has ended on an endpoint that stopped answering: the flag is still
\* true and the handle, though stale, is still set
C36_Witness ==
    /\ pc = "idle"
    /\ result.op = "run"
    /\ is_logged_in
    /\ driver_instance # None
    /\ ~ReadOk(driver_instance)

\* one server process from its start, with no Session Record left by an
\* earlier process
InitClean == Init /\ sessionFile = Absent

NextClean ==
    \/ \E id \in EpIds : EndpointDies(id)
    \/ \E id \in EpIds : EndpointHangs(id)
    \/ \E id \in EpIds, u \in Urls : UserNavigates(id, u)
    \/ Bounce
    \/ \E a \in BOOLEAN : CheckStatus(a)
    \/ \E q \in {"ok", "raise"} : CloseSession(q)
    \/ \E a \in BOOLEAN : StartSession(a)
    \/ \E a \in BOOLEAN, w \in SUBSET Strategies, h \in {"ok", "hung"} : StartCreate(a, w, h)
    \/ \E o \in NavOutcomes, q \in {"ok", "raise"} : StartNavigate(o, q)
    \/ WaitInit
    \/ \E m \in BOOLEAN : WaitPoll(m)
    \/ WaitTimeout
    \/ \E a \in BOOLEAN : RunWorkflow(a)
    \/ \E c \in BOOLEAN : PreCheck(c)
    \/ \E o \in {"ok", "timeout", "noboxes", "error", "empty", "blocked", "late_empty",
                 "late_rows", "absent"},
          c \in BOOLEAN : Step(o, c)

SpecClean == InitClean /\ [][NextClean]_vars

\* C37: in a single process that starts with no Session Record, in every state
\* a Session Record exists only if the in-memory handle is not none.
C37_RecordNeedsHandle ==
    sessionFile.present => driver_instance # None

\* runWorkflow found that the endpoint of its handle no longer answers: it
\* returned browser_not_open with neither handle nor record left
C37_Witness ==
    /\ pc = "idle"
    /\ result.op = "run"
    /\ result.status = "browser_not_open"
    /\ gh.sawUnreachable
    /\ driver_instance = None
    /\ ~sessionFile.present

\* C38: when startSession returns connection_error or error after it obtained
\* an endpoint, the in-memory handle is none and no Session Record exists.
C38_StartFailureCleansUp ==
    (/\ pc = "idle"
     /\ result.op = "start"
     /\ result.status \in {"connection_error", "error"}
     /\ gh.created) =>
        (driver_instance = None /\ ~sessionFile.present)

(***************************************************************************)
(* Device activation (main.py, local_activation.py, firebase_activation.py)*)
(***************************************************************************)
APP_NAME == "taskify"
SystemIds == {"S1", "S2"}
ActivationKeys == {"K1", "K2"}
AppNames == {APP_NAME, "other"}
\* generate_systemId() of the machine the server runs on
ThisSystem == "S1"
Corrupt == [kind |-> "corrupt"]

\* a document of the activation_keys collection; is_active stands for active
\* and not expired
Doc(system_id, app_name, is_active) ==
    [kind |-> "doc", system_id |-> system_id, app_name |-> app_name, is_active |-> is_active]

\* verify_activation(): the dict it returns; every exception, and a missing
\* database connection (up = FALSE), is turned into an error result
verify_activation(docs, system_id, activation_key, app_name, up) ==
    LET data == docs[activation_key]
        no(status) == [success |-> FALSE, activationStatus |-> status]
    IN IF ~up THEN no("error")
       ELSE IF data = NoDoc THEN no("invalid_key")
       ELSE IF data.system_id # system_id THEN no("key_mismatch")
       ELSE IF data.app_name # app_name THEN no("wrong_app")
       ELSE IF ~data.is_active THEN no("inactive")
       ELSE [success |-> TRUE, activationStatus |-> "active"]

\* save_activation(): the file it writes; a write that fails leaves the old
\* file or a truncated one
save_activation(file, system_id, activation_key, app_name, written_as) ==
    CASE written_as = "ok" -> [kind |-> "data", system_id |-> system_id,
                               activation_key |-> activation_key, app_name |-> app_name]
      [] written_as = "failed" -> file
      [] written_as = "truncated" -> Corrupt

\* get_stored_activation(): None for a missing or unreadable file
get_stored_activation(file) == IF file.kind = "data" THEN file ELSE NoFile

Resp(op, ok, status) == [op |-> op, deviceActivation |-> ok, activationStatus |-> status]

activate_device_endpoint_always(system_id, activation_key, app_name, up, written_as) ==
    LET r == verify_activation(act.docs, system_id, activation_key, app_name, up)
    IN [file |-> save_activation(act.file, system_id, activation_key, APP_NAME, written_as),
        resp |-> Resp("activate", r.success, r.activationStatus)]

\* activate_device_endpoint(): new file and the response
activate_device_endpoint(system_id, activation_key, app_name, up, written_as) ==
    LET r == verify_activation(act.docs, system_id, activation_key, app_name, up)
    IN IF r.success
       THEN [file |-> save_activation(act.file, system_id, activation_key, APP_NAME, written_as),
             resp |-> Resp("activate", TRUE, "active")]
       ELSE [file |-> act.file, resp |-> Resp("activate", FALSE, r.activationStatus)]

\* check_activation_endpoint(): new file and the response
check_activation_endpoint(hwOk, up) ==
    LET stored == get_stored_activation(act.file)
        r == verify_activation(act.docs, ThisSystem, stored.activation_key, APP_NAME, up)
    IN IF ~hwOk THEN [file |-> act.file, resp |-> Resp("check", FALSE, "error")]
       ELSE IF stored # NoFile /\ stored.system_id = ThisSystem
       THEN IF r.success
            THEN [file |-> act.file, resp |-> Resp("check", TRUE, "active")]
            ELSE [file |-> NoFile, resp |-> Resp("check", FALSE, r.activationStatus)]
       ELSE [file |-> act.file, resp |-> Resp("check", FALSE, "not_activated")]

InitActivation ==
    /\ driver_instance = None
    /\ is_logged_in = FALSE
    /\ sessionFile = Absent
    /\ now = StartTime
    /\ ep = [i \in EpIds |-> NoEp]
    /\ port = None
    /\ affordance = FALSE
    /\ pc = "idle"
    /\ result = NoResult
    /\ loaded = Absent
    /\ written = NoWritten
    /\ sl = NoSl
    /\ wf = NoWf
    /\ gh = NoGh
    /\ page = NoPage
    /\ srv = NoSrv
    /\ act = NoAct

\* the vendor issues, changes, deactivates or deletes the document of a key
FirebaseChanges(k, d) ==
    /\ act.docs[k] # d
    /\ act' = [act EXCEPT !.docs[k] = d]
    /\ UNCHANGED <<globals, now, env, pc, result, store, sl, wf, gh, page, srv>>

ActivateDevice(system_id, activation_key, app_name, up, written_as) ==
    /\ LET r == activate_device_endpoint(system_id, activation_key, app_name, up, written_as)
       IN act' = [act EXCEPT !.file = r.file, !.resp = r.resp]
    /\ UNCHANGED <<globals, now, env, pc, result, store, sl, wf, gh, page, srv>>

CheckActivation(hwOk, up) ==
    /\ LET r == check_activation_endpoint(hwOk, up)
       IN act' = [act EXCEPT !.file = r.file, !.resp = r.resp]
    /\ UNCHANGED <<globals, now, env, pc, result, store, sl, wf, gh, page, srv>>

\* logout_endpoint(): clear_activation()
Logout ==
    /\ act' = [act EXCEPT !.file = NoFile, !.resp = Resp("logout", FALSE, "")]
    /\ UNCHANGED <<globals, now, env, pc, result, store, sl, wf, gh, page, srv>>

NextActivation ==
    \/ \E k \in ActivationKeys, s \in SystemIds, a \in AppNames, on \in BOOLEAN :
          FirebaseChanges(k, Doc(s, a, on))
    \/ \E k \in ActivationKeys : FirebaseChanges(k, NoDoc)
    \/ \E s \in SystemIds, k \in ActivationKeys, a \in AppNames, up \in BOOLEAN,
          w \in {"ok", "failed", "truncated"} : ActivateDevice(s, k, a, up, w)
    \/ \E hwOk \in BOOLEAN, up \in BOOLEAN : CheckActivation(hwOk, up)
    \/ Logout

SpecActivation == InitActivation /\ [][NextActivation]_vars

\* C39: the activation file gets new content only from an activate-device
\* request whose verification succeeded for the system id and key of the
\* request, and the content is that system id and key; a request whose
\* verification does not succeed leaves the file as it was and reports
\* deviceActivation false; check-activation and logout never put data in the
\* file; check-activation reports deviceActivation true only when the stored
\* record is for this system and the verification of its key succeeded.
C39_ActivationOnlyWhenVerified ==
    [][/\ \A s \in SystemIds, k \in ActivationKeys, a \in AppNames, up \in BOOLEAN,
             w \in {"ok", "failed", "truncated"} :
             ActivateDevice(s, k, a, up, w) =>
                LET ok == verify_activation(act.docs, s, k, a, up).success
                IN /\ act'.file # act.file => ok
                   /\ (act'.file # act.file /\ act'.file.kind = "data") =>
                         (act'.file.system_id = s /\ act'.file.activation_key = k)
                   /\ ~ok => (act'.file = act.file /\ ~act'.resp.deviceActivation)
       /\ \A hwOk \in BOOLEAN, up \in BOOLEAN :
             CheckActivation(hwOk, up) =>
                /\ act'.file \in {act.file, NoFile}
                /\ act'.resp.deviceActivation =>
                      /\ hwOk
                      /\ act.file.kind = "data"
                      /\ act.file.system_id = ThisSystem
                      /\ verify_activation(act.docs, ThisSystem, act.file.activation_key,
                                           APP_NAME, up).success
       /\ Logout => act'.file = NoFile]_vars

\* a key was verified and stored, then deactivated: check-activation has just
\* refused it and removed the record
C39_Witness ==
    /\ act.resp.op = "check"
    /\ ~act.resp.deviceActivation
    /\ act.resp.activationStatus = "inactive"
    /\ act.file = NoFile

====
